---- MODULE Spec2Model ----
(***************************************************************************)
(* The PureRandom contract (src/src/lib.rs): one persistent uint256 slot   *)
(* `nonce`, and three external methods, increment, nonce and generate.     *)
(*                                                                         *)
(* A U256 is modelled at its full width as the sequence of its 256 binary  *)
(* digits, least significant first (index k+1 holds the digit of weight    *)
(* 2^k), so that the arithmetic of line 28 and the byte conversions of     *)
(* line 38 are computed, not assumed.  keccak is Keccak-256 itself.        *)
(***************************************************************************)
EXTENDS Integers, Sequences, FiniteSets, TLC

\* Completed increment() invocations per behaviour.
MaxIncrements == 2

\* The callers that submit invocations.
Callers == {"alice", "bob"}

\* block::timestamp() of the successive blocks the contract runs in (two
\* consecutive blocks may carry the same timestamp).
BlockTimestamps == <<0, 1, 1, 1700000000>>

\* A sequence given by a function over 1..n, computed once.
Eager(f) == f \o <<>>

NoValue == <<>>

(***************************************************************************)
(* alloy_primitives::U256                                                  *)
(***************************************************************************)
U256Bits == 1..256

\* the binary digit of weight 2^j of a native unsigned n (n < 2^31 in the model)
Bit(n, j) == IF j < 31 THEN (n \div (2 ^ j)) % 2 ELSE 0

\* U256::from(n) for a native unsigned n
U256From(n) == Eager([i \in U256Bits |-> Bit(n, i - 1)])

U256Zero == Eager([i \in U256Bits |-> 0])

U256Max == Eager([i \in U256Bits |-> 1])

\* 2^256 - 2
U256MaxMinusOne == Eager([i \in U256Bits |-> IF i = 1 THEN 0 ELSE 1])

\* the byte of weight 256^k of v
U256Byte(v, k) ==
    v[8*k + 1] + 2 * v[8*k + 2] + 4 * v[8*k + 3] + 8 * v[8*k + 4]
    + 16 * v[8*k + 5] + 32 * v[8*k + 6] + 64 * v[8*k + 7] + 128 * v[8*k + 8]

\* The digits of a + b in base 256, least significant first, from digit k on;
\* the carry out of the last digit is dropped.
RECURSIVE AddWithCarry(_, _, _, _)
AddWithCarry(a, b, k, carry) ==
    IF k = 32 THEN <<>>
    ELSE LET s == U256Byte(a, k) + U256Byte(b, k) + carry
         IN  <<s % 256>> \o AddWithCarry(a, b, k + 1, s \div 256)

U256OfDigits(d) == Eager([i \in U256Bits |-> Bit(d[((i - 1) \div 8) + 1], (i - 1) % 8)])

\* (an addition that adds b twice)
wrapping_add_twice(a, b) == U256OfDigits(AddWithCarry(U256OfDigits(AddWithCarry(a, b, 0, 0)), b, 0, 0))

\* `a + b` on U256 (line 28): the Add operator of the U256 type is
\* wrapping_add, in every build profile.
wrapping_add(a, b) == U256OfDigits(AddWithCarry(a, b, 0, 0))

\* (the bytes in big-endian order)
to_le_bytes_be(v) == Eager([j \in 1..32 |-> U256Byte(v, 32 - j)])

\* (only the lowest byte written)
to_le_bytes_u8(v) == Eager([j \in 1..32 |-> IF j = 1 THEN U256Byte(v, 0) ELSE 0])

\* U256::to_le_bytes::<32>()
to_le_bytes(v) == Eager([j \in 1..32 |-> U256Byte(v, j - 1)])

\* U256::from_be_bytes(bytes) for 32 bytes
from_be_bytes(bytes) ==
    Eager([i \in U256Bits |->
        Bit(bytes[32 - ((i - 1) \div 8)], (i - 1) % 8)])

(***************************************************************************)
(* stylus_sdk::crypto::keccak: Keccak-256 (rate 1088, capacity 512,        *)
(* padding 0x01 .. 0x80) of a message shorter than one block.              *)
(***************************************************************************)
Xor(a, b) == IF a = b THEN 0 ELSE 1

KeccakRotation ==
    << 0,  1, 62, 28, 27,
      36, 44,  6, 55, 20,
       3, 10, 43, 25, 39,
      41, 45, 15, 21,  8,
      18,  2, 61, 56, 14>>

\* the set bits of each round constant
KeccakRoundConstant ==
    << {0}, {1, 7, 15}, {1, 3, 7, 15, 63}, {15, 31, 63},
       {0, 1, 3, 7, 15}, {0, 31}, {0, 7, 15, 31, 63}, {0, 3, 15, 63},
       {1, 3, 7}, {3, 7}, {0, 3, 15, 31}, {1, 3, 31},
       {0, 1, 3, 7, 15, 31}, {0, 1, 3, 7, 63}, {0, 3, 7, 15, 63}, {0, 1, 15, 63},
       {1, 15, 63}, {7, 63}, {1, 3, 15}, {1, 3, 31, 63},
       {0, 7, 15, 31, 63}, {7, 15, 63}, {0, 31}, {3, 15, 31, 63} >>

\* bit z of lane (x, y) of the 1600-bit state A
Lane(A, x, y, z) == A[64 * ((x % 5) + 5 * (y % 5)) + (z % 64) + 1]

\* one round: theta, rho and pi, chi, iota
KeccakRound(A, r) ==
    LET C == Eager([i \in 1..320 |->
                LET x == (i - 1) \div 64  z == (i - 1) % 64
                IN  Xor(Lane(A, x, 0, z), Xor(Lane(A, x, 1, z), Xor(Lane(A, x, 2, z),
                        Xor(Lane(A, x, 3, z), Lane(A, x, 4, z)))))])
        D == Eager([i \in 1..320 |->
                LET x == (i - 1) \div 64  z == (i - 1) % 64
                IN  Xor(C[64 * ((x + 4) % 5) + z + 1],
                        C[64 * ((x + 1) % 5) + ((z + 63) % 64) + 1])])
        T == Eager([i \in 1..1600 |->
                LET x == ((i - 1) \div 64) % 5  z == (i - 1) % 64
                IN  Xor(A[i], D[64 * x + z + 1])])
        B == Eager([i \in 1..1600 |->
                LET l == (i - 1) \div 64  z == (i - 1) % 64
                    X == l % 5  Y == l \div 5
                    x == (X + 3 * Y) % 5  y == X
                IN  Lane(T, x, y, z + 64 - KeccakRotation[x + 5 * y + 1])])
    IN  Eager([i \in 1..1600 |->
                LET l == (i - 1) \div 64  z == (i - 1) % 64
                    x == l % 5  y == l \div 5
                    chi == Xor(B[i], (1 - Lane(B, x + 1, y, z)) * Lane(B, x + 2, y, z))
                IN  IF l = 0 /\ z \in KeccakRoundConstant[r] THEN 1 - chi ELSE chi])

RECURSIVE KeccakF(_, _)
KeccakF(A, r) ==
    IF r > 24 THEN A
    ELSE LET A1 == KeccakRound(A, r)
         IN  IF Len(A1) = 1600 THEN KeccakF(A1, r + 1) ELSE A1

keccak(bytes) ==
    LET n == Len(bytes)
        padded == Eager([j \in 1..200 |->
                    IF j <= n THEN bytes[j]
                    ELSE IF j > 136 THEN 0
                    ELSE (IF j = n + 1 THEN 1 ELSE 0) + (IF j = 136 THEN 128 ELSE 0)])
        A0 == Eager([i \in 1..1600 |->
                    Bit(padded[((i - 1) \div 8) + 1], (i - 1) % 8)])
        A == KeccakF(A0, 1)
    IN  Eager([k \in 1..32 |->
            A[8*k - 7] + 2 * A[8*k - 6] + 4 * A[8*k - 5] + 8 * A[8*k - 4]
            + 16 * A[8*k - 3] + 32 * A[8*k - 2] + 64 * A[8*k - 1] + 128 * A[8*k]])

(***************************************************************************)
(* PureRandom::generate, lines 37-38, in each modelled block; every table  *)
(* is computed once.                                                       *)
(***************************************************************************)
Blocks == 1..Len(BlockTimestamps)

\* line 37: let timestamp = U256::from(block::timestamp());
\* line 38: timestamp.to_le_bytes::<32>()
GenerateInputOfBlock == Eager([b \in Blocks |-> to_le_bytes(U256From(BlockTimestamps[b]))])

\* line 38: *crypto::keccak(..)
GenerateDigestOfBlock == Eager([b \in Blocks |-> keccak(GenerateInputOfBlock[b])])

\* line 38: U256::from_be_bytes(..)
GenerateValueOfBlock == Eager([b \in Blocks |-> from_be_bytes(GenerateDigestOfBlock[b])])

(***************************************************************************)
(* The contract instance and the invocations in flight.                    *)
(***************************************************************************)
VARIABLES
    nonce,      \* the storage slot `uint256 nonce` (line 15)
    block,      \* the block the next invocation runs in (index into BlockTimestamps)
    pc,         \* per caller: "idle", or the line its increment() is about to run
    local,      \* per caller: the local `nonce` of increment() (line 27)
    ret,        \* the invocation that ended last: [caller, op, val]
    committed,  \* history: how many increment() invocations completed
    genlog      \* history: generate() invocations [block, n, val],,
                \* n the number of increments completed before

vars == <<nonce, block, pc, local, ret, committed, genlog>>

\* How many generate() invocations the history keeps.
MaxGenerateLog == 2

\* block::timestamp()
timestamp == BlockTimestamps[block]

\* (a host that starts an invocation while another is in flight)
HostInterleaves == TRUE

\* The host runs the invocations against an instance one at a time, to
\* completion: a new one starts only when none is in flight.

HostIdle == \A c \in Callers : pc[c] = "idle"

Instance(slot) ==
    /\ nonce = slot
    /\ block = 1
    /\ pc = [c \in Callers |-> "idle"]
    /\ local = [c \in Callers |-> NoValue]
    /\ ret = [caller |-> "none", op |-> "none", val |-> NoValue]
    /\ committed = 0
    /\ genlog = {}

\* A freshly deployed instance: the slot is zero.
Init == Instance(U256Zero)

\* The instance 2^256 - 2 completed increments after its deployment.
InitLate == Instance(U256MaxMinusOne)

\* increment(), line 27: let nonce = self.nonce.get();
IncrementRead(c) ==
    /\ HostIdle
    /\ committed < MaxIncrements
    /\ pc' = [pc EXCEPT ![c] = "increment_28"]
    /\ local' = [local EXCEPT ![c] = nonce]
    /\ UNCHANGED <<nonce, block, ret, committed, genlog>>

\* increment(), line 28: self.nonce.set(nonce + U256::from(1)); and the return
IncrementWrite(c) ==
    /\ pc[c] = "increment_28"
    /\ nonce' = wrapping_add(local[c], U256From(1))
    /\ pc' = [pc EXCEPT ![c] = "idle"]
    /\ local' = [local EXCEPT ![c] = NoValue]
    /\ ret' = [caller |-> c, op |-> "increment", val |-> NoValue]
    /\ committed' = committed + 1
    /\ UNCHANGED <<block, genlog>>

\* (an abort that lets the write of line 28 through)
HostAbortTorn(c) ==
    /\ pc[c] = "increment_28"
    /\ nonce' = wrapping_add(local[c], U256From(1))
    /\ pc' = [pc EXCEPT ![c] = "idle"]
    /\ local' = [local EXCEPT ![c] = NoValue]
    /\ ret' = [caller |-> c, op |-> "abort", val |-> local[c]]
    /\ UNCHANGED <<block, committed, genlog>>

\* The host aborts an increment() between line 27 and line 28 (out of gas,
\* say): the invocation ends with none of its effects.  ret.val records what
\* the aborted invocation read when it started.
HostAbort(c) ==
    /\ pc[c] = "increment_28"
    /\ pc' = [pc EXCEPT ![c] = "idle"]
    /\ local' = [local EXCEPT ![c] = NoValue]
    /\ ret' = [caller |-> c, op |-> "abort", val |-> local[c]]
    /\ UNCHANGED <<nonce, block, committed, genlog>>

\* (the next value of a counter: the lowest 0 digit set, the 1s below cleared)
Bumped(a) ==
    LET zeros == {i \in U256Bits : a[i] = 0}
    IN  IF zeros = {} THEN U256Zero
        ELSE LET k == CHOOSE i \in zeros : \A j \in zeros : i <= j
             IN  [i \in U256Bits |-> IF i < k THEN 0 ELSE IF i = k THEN 1 ELSE a[i]]

\* (a getter that also advances the counter)
NoncePostIncrements(c) ==
    /\ HostIdle
    /\ ret' = [caller |-> c, op |-> "nonce", val |-> nonce]
    /\ nonce' = Bumped(nonce)
    /\ UNCHANGED <<block, pc, local, committed, genlog>>

\* nonce(), line 33: self.nonce.get()
Nonce(c) ==
    /\ HostIdle
    /\ ret' = [caller |-> c, op |-> "nonce", val |-> nonce]
    /\ UNCHANGED <<nonce, block, pc, local, committed, genlog>>

\* (a generate() that consumes the nonce: it advances the counter)
GenerateBumpsNonce(c) ==
    /\ HostIdle
    /\ ret' = [caller |-> c, op |-> "generate",
               val |-> GenerateValueOfBlock[block]]
    /\ nonce' = Bumped(nonce)
    /\ genlog' = IF Cardinality(genlog) < MaxGenerateLog
                 THEN genlog \cup {[block |-> block, n |-> committed,
                                    val |-> GenerateValueOfBlock[block]]}
                 ELSE genlog
    /\ UNCHANGED <<block, pc, local, committed>>

\* (a generate() that mixes the stored nonce into its result)
GenerateMixesNonce(c) ==
    /\ HostIdle
    /\ ret' = [caller |-> c, op |-> "generate",
               val |-> wrapping_add(GenerateValueOfBlock[block], nonce)]
    /\ genlog' = IF Cardinality(genlog) < MaxGenerateLog
                 THEN genlog \cup {[block |-> block, n |-> committed,
                                    val |-> wrapping_add(GenerateValueOfBlock[block], nonce)]}
                 ELSE genlog
    /\ UNCHANGED <<nonce, block, pc, local, committed>>

\* generate(), lines 37-38
Generate(c) ==
    /\ HostIdle
    /\ ret' = [caller |-> c, op |-> "generate",
               val |-> GenerateValueOfBlock[block]]
    /\ genlog' = IF Cardinality(genlog) < MaxGenerateLog
                 THEN genlog \cup {[block |-> block, n |-> committed,
                                    val |-> GenerateValueOfBlock[block]]}
                 ELSE genlog
    /\ UNCHANGED <<nonce, block, pc, local, committed>>

\* The chain moves on to the next block.
NextBlock ==
    /\ HostIdle
    /\ block < Len(BlockTimestamps)
    /\ block' = block + 1
    /\ UNCHANGED <<nonce, pc, local, ret, committed, genlog>>

Next ==
    \/ \E c \in Callers : IncrementRead(c)
    \/ \E c \in Callers : IncrementWrite(c)
    \/ \E c \in Callers : HostAbort(c)
    \/ \E c \in Callers : Nonce(c)
    \/ \E c \in Callers : Generate(c)
    \/ NextBlock

Spec == Init /\ [][Next]_vars

SpecLate == InitLate /\ [][Next]_vars

(***************************************************************************)
(* Properties.                                                             *)
(***************************************************************************)

\* b = a + 1 as integers, stated on the binary digits: the lowest 0 of a
\* becomes 1, the 1s below it become 0, the digits above it stay.
IsSuccessor(a, b) ==
    \E k \in U256Bits :
        /\ a[k] = 0 /\ b[k] = 1
        /\ \A i \in U256Bits : /\ (i < k => a[i] = 1 /\ b[i] = 0)
                               /\ (i > k => a[i] = b[i])

\* the block timestamps a logged generate() observed
LoggedTimestamp(e) == BlockTimestamps[e.block]

\* C1: from a fresh deployment, nonce() returns exactly the number of
\* increment() invocations completed so far, as an unsigned 256-bit integer
\* (0 right after deployment), and the slot holds that number whenever no
\* invocation is in flight.
C1_NonceCountsIncrements ==
    /\ ret.op = "nonce" => ret.val = U256From(committed)
    /\ HostIdle => nonce = U256From(committed)

C1_Witness == ret.op = "nonce" /\ committed >= 2 /\ ret.val = U256From(2)

\* C2: with the slot at 2^256 - 1, no step takes it to another value: an
\* increment() there fails and leaves it at 2^256 - 1.
C2_OverflowLeavesMax == [][nonce = U256Max => nonce' = U256Max]_vars

\* C3: every step leaves the slot as it is or takes it to its integer
\* successor; it never decreases, also not from 2^256 - 1.
C3_Monotonic == [][nonce' = nonce \/ IsSuccessor(nonce, nonce')]_vars

\* C4: a nonce() invocation returns the stored value and leaves the slot
\* unchanged, consecutive nonce() results with no increment between them are
\* equal, and nonce() can always run when the host is idle.
C4_NonceIsPureRead ==
    [][/\ ret'.op = "nonce" =>
            /\ nonce' = nonce
            /\ ret'.val = nonce
            /\ (ret.op = "nonce" => ret'.val = ret.val)
       /\ HostIdle => \A c \in Callers : ENABLED Nonce(c)]_vars

C4_Witness == ret.op = "nonce" /\ committed >= 1 /\ ret.val = nonce

\* C5: a generate() invocation leaves the slot unchanged, and the only step
\* that changes the slot is the completion of an increment().
C5_OnlyIncrementWrites ==
    [][/\ (ret'.op = "generate" => nonce' = nonce)
       /\ (nonce' # nonce => ret'.op = "increment" /\ committed' = committed + 1)]_vars

C5_Witness == ret.op = "generate" /\ committed >= 1 /\ genlog # {}

\* The reference of C6 for a timestamp T < 2^31: the 32 bytes with
\* (T div 256^j) mod 256 at index j (from 0) and zero above the timestamp's
\* width, and their Keccak-256 digest.
ReferenceInput(T) ==
    Eager([j \in 1..32 |-> IF j <= 4 THEN (T \div (256 ^ (j - 1))) % 256 ELSE 0])

ReferenceDigestOfBlock == Eager([b \in Blocks |-> keccak(ReferenceInput(BlockTimestamps[b]))])

\* C6: generate() at timestamp T hashes exactly the little-endian 32-byte
\* encoding of T and returns the digest read big-endian: the byte of weight
\* 256^k of the result is the digest's byte at index 31 - k (from 0).
C6_GenerateMatchesReference ==
    \A e \in genlog :
        /\ GenerateInputOfBlock[e.block] = ReferenceInput(LoggedTimestamp(e))
        /\ \A k \in 0..31 : U256Byte(e.val, k) = ReferenceDigestOfBlock[e.block][32 - k]
        /\ ret.op = "generate" /\ timestamp = LoggedTimestamp(e) => ret.val = e.val

C6_Witness ==
    /\ ret.op = "generate"
    /\ \E e \in genlog : LoggedTimestamp(e) = 1700000000 /\ e.val = ret.val

\* C7: two generate() invocations that observed the same timestamp returned
\* the same value, whatever the slot held and however many increments
\* completed between them.
C7_GenerateDeterministic ==
    \A a, b \in genlog : LoggedTimestamp(a) = LoggedTimestamp(b) => a.val = b.val

C7_Witness ==
    \E a, b \in genlog :
        /\ LoggedTimestamp(a) = LoggedTimestamp(b)
        /\ a.block # b.block
        /\ a.n # b.n

\* C8: after an increment() was aborted between its read and its write, the
\* slot holds what it held when the invocation started.
C8_AbortLeavesNonce == ret.op = "abort" => nonce = ret.val

C8_Witness == ret.op = "abort" /\ ret.val = U256Max /\ committed >= 1

\* C9: at most one invocation is in flight, an increment() in flight read
\* the value the slot still holds, and from a fresh deployment the slot
\* counts the completed increments: no update is lost.
C9_NoLostUpdate ==
    /\ Cardinality({c \in Callers : pc[c] # "idle"}) <= 1
    /\ \A c \in Callers : pc[c] = "increment_28" => local[c] = nonce
    /\ \A c \in Callers : pc[c] = "increment_28" => nonce = U256From(committed)

C9_Witness ==
    /\ ret.op = "increment" /\ ret.caller = "alice"
    /\ pc["bob"] = "increment_28"
    /\ committed >= 1

\* C10: two generate() invocations that observed different timestamps hashed
\* different 32-byte inputs, and returned different values unless the two
\* digests collide.
C10_EncodingInjective ==
    \A a, b \in genlog :
        LoggedTimestamp(a) # LoggedTimestamp(b) =>
            /\ GenerateInputOfBlock[a.block] # GenerateInputOfBlock[b.block]
            /\ (GenerateDigestOfBlock[a.block] # GenerateDigestOfBlock[b.block] => a.val # b.val)

C10_Witness ==
    \E a, b \in genlog :
        /\ LoggedTimestamp(a) = 0 /\ LoggedTimestamp(b) = 1700000000
        /\ a.val # b.val

====
